---- MODULE Spec2Model ----
(***************************************************************************)
(* State-machine model of exps_e2e.py: the per-class subsampling of the    *)
(* crop populations (subsample_const_size), the inverse-frequency sampling *)
(* weights (define_sampler), the per-loader metric row (get_metrics) and   *)
(* the orchestration in main from the configuration to the CSV report.     *)
(***************************************************************************)
EXTENDS Integers, Sequences, FiniteSets, TLC

VARIABLES
    pc,                     \* position of main
    args,                   \* parsed command line (get_args_parser)
    metric_columns,         \* column names the two imported metric families produce
    config,                 \* json.load(f)
    loaded_train,           \* train population returned by load_crops
    loaded_val,             \* val population returned by load_crops
    train_crops,
    val_crops,
    sampler,
    model,
    train_loader,
    train_loader_for_eval,
    val_loader,
    traversals,             \* the loaders iterated by the evaluation runs, in order
    pending,                \* elements already evaluated of the list literal of line 161
    evaluated_metrics,
    report,                 \* the CSV file under args.output_dir
    error                   \* the exception that ended the run, if any

vars == <<pc, args, metric_columns, config, loaded_train, loaded_val, train_crops,
          val_crops, sampler, model, train_loader, train_loader_for_eval,
          val_loader, traversals, pending, evaluated_metrics, report, error>>

-----------------------------------------------------------------------------
(* Bounds of the model *)

MaxLabel == 1           \* valid labels are 0..MaxLabel; -1 marks an unlabeled crop
MaxCrops == 4           \* population length when subsample_const_size is exercised alone
MaxLoad == 2            \* train population length in a whole run of main
MaxValCrops == 1        \* val population length when it is exercised alone
MaxItems == 15          \* population length when define_sampler is exercised alone
MaxCols == 2            \* metric columns per family when get_metrics is exercised alone

None == [tag |-> "None"]

Labels == -1 .. MaxLabel

Range(s) == {s[i] : i \in 1 .. Len(s)}

\* The populations load_crops can return: crop i carries its position as identity.
Population(n) ==
    {[i \in 1 .. Len(ls) |-> [id |-> i, _label |-> ls[i]]] :
        ls \in UNION {[1 .. k -> Labels] : k \in 0 .. n}}

\* [c for c in crops if c._label >= 0]
valid_crops(crops) == SelectSeq(crops, LAMBDA c : c._label >= 0)

\* np.array([c._label for c in crops])
labels_of(crops) == [i \in 1 .. Len(crops) |-> crops[i]._label]

RECURSIVE SortSet(_)
SortSet(S) ==
    IF S = {} THEN <<>>
    ELSE LET m == CHOOSE x \in S : \A y \in S : x <= y
         IN  <<m>> \o SortSet(S \ {m})

\* np.unique(labels): the distinct values, ascending
unique(labels) == SortSet(Range(labels))

\* np.argwhere(labels == lbl).flatten(): the positions of lbl, ascending
argwhere(labels, lbl) == SortSet({i \in 1 .. Len(labels) : labels[i] = lbl})

\* np.random.choice(a, size, replace=False) raises ValueError on a negative
\* size and on a size larger than the population
choice_raises(a, size) == size < 0 \/ size > Len(a)

\* with replacement: any sequence of size elements of a
choice_replace(a, size) == [1 .. size -> Range(a)]

\* np.random.choice(a, size, replace=False): every ordered selection of size
\* distinct elements of a is a possible outcome
choice(a, size) ==
    {s \in [1 .. size -> Range(a)] : \A i, j \in 1 .. size : s[i] = s[j] => i = j}

\* keeps the first size - 1 positions of a class that is large enough
chosen_indices_short(labels, lbl, size) ==
    LET indices == argwhere(labels, lbl)
    IN  IF Len(indices) < size THEN {indices}
        ELSE choice(indices, IF size > 0 THEN size - 1 ELSE size)

\* lines 62-66: the outcomes of chosen_indices for one label
chosen_indices(labels, lbl, size) ==
    LET indices == argwhere(labels, lbl)
    IN  IF Len(indices) < size THEN {indices} ELSE choice(indices, size)

\* lines 61-67: the loop over np.unique(labels), appending each class's choice
RECURSIVE final_indices(_, _, _)
final_indices(labels, lbls, size) ==
    IF lbls = <<>> THEN {<<>>}
    ELSE {c \o r : c \in chosen_indices(labels, Head(lbls), size),
                   r \in final_indices(labels, Tail(lbls), size)}

\* the call raises when some class reaches np.random.choice with a bad size
subsample_raises(crops, size) ==
    LET labels == labels_of(crops)
    IN  \E lbl \in Range(labels) :
            LET indices == argwhere(labels, lbl)
            IN  ~(Len(indices) < size) /\ choice_raises(indices, size)

\* subsample_const_size(crops, size): the populations it can return
subsample_const_size(crops, size) ==
    LET labels == labels_of(crops)
    IN  {[k \in 1 .. Len(ix) |-> crops[ix[k]]] :
            ix \in final_indices(labels, unique(labels), size)}

-----------------------------------------------------------------------------
(* IEEE 754 double precision, for the weights of define_sampler.  A double  *)
(* is [e, m]: the value m * 2^(e - 52) with a 53-bit significand m, held as *)
(* three limbs <<m1, m2, m3>> of 17, 18 and 18 bits (m1 carries the leading *)
(* one), since a 53-bit number does not fit a 32-bit integer.               *)

Limb == 2 ^ 18
Lead == 2 ^ 16

ILog2(n) == CHOOSE e \in 0 .. 30 : 2 ^ e <= n /\ n < 2 ^ (e + 1)

\* round to nearest, ties to even: g is the first dropped bit, sticky the rest
Round(e, m, g, sticky) ==
    IF g = 1 /\ (sticky \/ m[3] % 2 = 1)
    THEN IF m[3] + 1 < Limb THEN [e |-> e, m |-> <<m[1], m[2], m[3] + 1>>]
         ELSE IF m[2] + 1 < Limb THEN [e |-> e, m |-> <<m[1], m[2] + 1, 0>>]
         ELSE IF m[1] + 1 < 2 * Lead THEN [e |-> e, m |-> <<m[1] + 1, 0, 0>>]
         ELSE [e |-> e + 1, m |-> <<Lead, 0, 0>>]
    ELSE [e |-> e, m |-> m]

\* n / d for Python integers n >= d >= 1 (true division, correctly rounded):
\* long division of n by d * 2^e, 53 quotient bits, then one rounding
FDiv(n, d) ==
    LET e   == ILog2(n \div d)
        den == d * 2 ^ e
        r0  == n - den
        r1  == (r0 * Lead) % den
        r2  == (r1 * Limb) % den
        r3  == (r2 * Limb) % den
    IN  Round(e,
              <<Lead + (r0 * Lead) \div den, (r1 * Limb) \div den,
                (r2 * Limb) \div den>>,
              (2 * r3) \div den,
              (2 * r3) % den # 0)

-----------------------------------------------------------------------------
(* define_sampler *)

Digits == <<"0", "1", "2", "3", "4", "5", "6", "7", "8", "9">>

\* str(l) for an integer label l >= 0: its decimal digits
RECURSIVE str(_)
str(l) == IF l < 10 THEN Digits[l + 1] ELSE str(l \div 10) \o Digits[(l % 10) + 1]

\* the category identifiers a hierarchy_match maps to: two coarse groups
Categories == {0, 1}

\* the hierarchy_match values of a config: null, or a dict from label strings
\* to categories (any subset of the labels may have an entry)
HierarchyMatches ==
    {None} \cup
    {[tag |-> "dict", map |-> f] :
        f \in UNION {[K -> Categories] : K \in SUBSET {str(l) : l \in 0 .. MaxLabel}}}

\* line 79 raises KeyError when some label has no entry
define_sampler_raises(crops, hierarchy_match) ==
    /\ hierarchy_match # None
    /\ \E i \in 1 .. Len(crops) : str(crops[i]._label) \notin DOMAIN hierarchy_match.map

\* lines 77-79: labels, replaced by their categories when a map is given
category_labels(crops, hierarchy_match) ==
    IF hierarchy_match # None
    THEN [i \in 1 .. Len(crops) |-> hierarchy_match.map[str(crops[i]._label)]]
    ELSE labels_of(crops)

\* line 82: {t: len(np.where(labels == t)[0]) for t in unique_labels}
class_sample_count(labels) ==
    [t \in Range(labels) |-> Cardinality({i \in 1 .. Len(labels) : labels[i] = t})]

\* sum(d.values())
RECURSIVE sum_values(_, _)
sum_values(d, keys) ==
    IF keys = {} THEN 0
    ELSE LET k == CHOOSE x \in keys : TRUE
         IN  d[k] + sum_values(d, keys \ {k})

\* relative to the largest class instead of the total
weight_of_largest(count) ==
    LET counts  == {count[k] : k \in DOMAIN count}
        largest == CHOOSE v \in counts : \A u \in counts : u <= v
    IN  [k \in DOMAIN count |-> FDiv(largest, count[k])]

\* line 84: weight = {k: sum(class_sample_count.values()) / v for k, v in ...}
weight_of(count) ==
    [k \in DOMAIN count |-> FDiv(sum_values(count, DOMAIN count), count[k])]

\* lines 85-86: np.array([weight[t] for t in labels])
samples_weight(crops, hierarchy_match) ==
    LET labels == category_labels(crops, hierarchy_match)
        weight == weight_of(class_sample_count(labels))
    IN  [i \in 1 .. Len(labels) |-> weight[labels[i]]]

\* line 87: WeightedRandomSampler(weights, num_samples), drawn with replacement
WeightedRandomSampler(weights, num_samples) ==
    [tag |-> "WeightedRandomSampler", weights |-> weights,
     num_samples |-> num_samples, replacement |-> TRUE]

define_sampler(crops, hierarchy_match) ==
    LET w == samples_weight(crops, hierarchy_match)
    IN  WeightedRandomSampler(w, Len(w))

-----------------------------------------------------------------------------
(* DataFrames: an index, column names, and one row of cells per index label *)

NaN == "NaN"

DataFrame(index, columns, data) == [index |-> index, columns |-> columns, data |-> data]

\* the first position of x in the sequence s
IndexOf(s, x) == CHOOSE i \in 1 .. Len(s) : s[i] = x /\ \A j \in 1 .. i - 1 : s[j] # x

\* the elements of s followed by those of t that s lacks, without repeats
RECURSIVE UnionSeq(_, _)
UnionSeq(s, t) ==
    IF t = <<>> THEN s
    ELSE UnionSeq(IF Head(t) \in Range(s) THEN s ELSE Append(s, Head(t)), Tail(t))

\* the row of df at index label x, NaN-filled when df has no such label
row_at(df, x) ==
    IF x \in Range(df.index) THEN df.data[IndexOf(df.index, x)]
    ELSE [j \in 1 .. Len(df.columns) |-> NaN]

\* pd.concat([a, b], axis=1): rows aligned on the index (outer join), the
\* columns of a followed by the columns of b
concat_columns(a, b) ==
    LET index == UnionSeq(a.index, b.index)
    IN  DataFrame(index, a.columns \o b.columns,
                  [r \in 1 .. Len(index) |-> row_at(a, index[r]) \o row_at(b, index[r])])

\* df[name] = value: overwrites the column when it exists, appends it otherwise
set_column(df, name, value) ==
    IF name \in Range(df.columns)
    THEN DataFrame(df.index, df.columns,
                   [r \in 1 .. Len(df.data) |->
                       [j \in 1 .. Len(df.columns) |->
                           IF df.columns[j] = name THEN value ELSE df.data[r][j]]])
    ELSE DataFrame(df.index, Append(df.columns, name),
                   [r \in 1 .. Len(df.data) |-> Append(df.data[r], value)])

\* the cells of df under the union of columns, NaN where df lacks the column
reindex_columns(df, columns) ==
    [r \in 1 .. Len(df.data) |->
        [j \in 1 .. Len(columns) |->
            IF columns[j] \in Range(df.columns)
            THEN df.data[r][IndexOf(df.columns, columns[j])] ELSE NaN]]

RECURSIVE all_columns(_)
all_columns(dfs) ==
    IF dfs = <<>> THEN <<>> ELSE UnionSeq(Head(dfs).columns, all_columns(Tail(dfs)))

RECURSIVE stack_rows(_, _)
stack_rows(dfs, columns) ==
    IF dfs = <<>> THEN DataFrame(<<>>, columns, <<>>)
    ELSE LET rest == stack_rows(Tail(dfs), columns)
         IN  DataFrame(Head(dfs).index \o rest.index, columns,
                       reindex_columns(Head(dfs), columns) \o rest.data)

\* the rows of every frame in list order, columns untouched
RECURSIVE stack_plain(_)
stack_plain(dfs) ==
    IF dfs = <<>> THEN [index |-> <<>>, data |-> <<>>]
    ELSE LET rest == stack_plain(Tail(dfs))
         IN  [index |-> Head(dfs).index \o rest.index,
              data |-> Head(dfs).data \o rest.data]

\* keeps the last frame only
concat_last(dfs) == dfs[Len(dfs)]

\* pd.concat(dfs): the rows of every frame in list order; frames with equal
\* columns are stacked as they are, otherwise under the union of their columns
concat_rows(dfs) ==
    IF \A i \in 1 .. Len(dfs) : dfs[i].columns = dfs[1].columns
    THEN DataFrame(stack_plain(dfs).index, dfs[1].columns, stack_plain(dfs).data)
    ELSE stack_rows(dfs, all_columns(dfs))

-----------------------------------------------------------------------------
(* get_metrics *)

\* the aggregated row of one metric family: one row, one cell per metric
eval_average_metrics_wstd(family) ==
    DataFrame(<<0>>, metric_columns[family],
              <<[j \in 1 .. Len(metric_columns[family]) |-> "mean"]>>)

RECURSIVE SumSeq(_)
SumSeq(s) == IF s = <<>> THEN 0 ELSE Head(s) + SumSeq(Tail(s))

\* sum(p.numel() for p in model.parameters())
numparams(m) == SumSeq(m.parameters)

\* lines 36-38
stamp(metrics, arguments, key, m) ==
    set_column(set_column(set_column(metrics, "dataset", key),
                          "model", arguments.modelname),
               "params", numparams(m))

\* the discrete family first
get_metrics_swapped(arguments, key, m) ==
    stamp(concat_columns(eval_average_metrics_wstd("discrete"),
                         eval_average_metrics_wstd("lee")),
          arguments, key, m)

\* lines 27-40, once both evaluation runs have returned
get_metrics(arguments, key, m) ==
    stamp(concat_columns(eval_average_metrics_wstd("lee"),
                         eval_average_metrics_wstd("discrete")),
          arguments, key, m)

-----------------------------------------------------------------------------
(* main *)

NoError == None
Raised(kind, at) == [tag |-> "error", kind |-> kind, at |-> at]

Abort(kind) ==
    /\ pc' = "aborted"
    /\ error' = Raised(kind, pc)

\* the values of size_data a configuration may hold, for populations up to n:
\* negative, zero, below, at and above a class count
Sizes(n) == -1 .. n + 1

Config(has_size, size, hm, sb) ==
    [has_size_data |-> has_size, size_data |-> IF has_size THEN size ELSE 0,
     hierarchy_match |-> hm, sample_batch |-> sb]

\* the configuration documents of a whole run: size_data absent or from -1
\* up to the largest class, hierarchy_match null or any map, sample_batch
Configs ==
    {Config(b, s, hm, sb) :
        b \in BOOLEAN, s \in Sizes(MaxLoad - 1), hm \in HierarchyMatches, sb \in BOOLEAN}

\* the models Model(num_channels, class_num) can build, by the element counts
\* of their parameter tensors
Models ==
    {[tag |-> "Model", parameters |-> ps, training |-> TRUE] : ps \in {<<4, 2>>, <<3>>}}

CellCropsDataset(crops, transform) ==
    [tag |-> "CellCropsDataset", crops |-> crops, transform |-> transform]

DataLoader(dataset, smp, shuffle) ==
    [tag |-> "DataLoader", dataset |-> dataset, sampler |-> smp, shuffle |-> shuffle]

\* lines 91-93
LoadConfig ==
    /\ pc = "load_config"
    /\ \/ /\ config' \in Configs
          /\ pc' = "load_crops"
          /\ UNCHANGED error
       \/ /\ Abort("FileNotFoundError")
          /\ UNCHANGED config
    /\ UNCHANGED <<args, metric_columns, loaded_train, loaded_val, train_crops,
                   val_crops, sampler, model, train_loader, train_loader_for_eval,
                   val_loader, traversals, pending, evaluated_metrics, report>>

\* lines 95-104
LoadCrops ==
    /\ pc = "load_crops"
    /\ loaded_train' \in Population(MaxLoad)
    /\ loaded_val' \in Population(1)       \* at most one val crop in a whole run
    /\ train_crops' = valid_crops(loaded_train')
    /\ val_crops' = valid_crops(loaded_val')
    /\ pc' = "subsample_train"
    /\ UNCHANGED <<args, metric_columns, config, sampler, model, train_loader,
                   train_loader_for_eval, val_loader, traversals, pending,
                   evaluated_metrics, report, error>>

\* lines 105-106
SubsampleTrain ==
    /\ pc = "subsample_train"
    /\ \/ /\ ~config.has_size_data
          /\ pc' = "define_sampler"
          /\ UNCHANGED <<train_crops, error>>
       \/ /\ config.has_size_data
          /\ ~subsample_raises(train_crops, config.size_data)
          /\ train_crops' \in subsample_const_size(train_crops, config.size_data)
          /\ pc' = "subsample_val"
          /\ UNCHANGED error
       \/ /\ config.has_size_data
          /\ subsample_raises(train_crops, config.size_data)
          /\ Abort("ValueError")
          /\ UNCHANGED train_crops
    /\ UNCHANGED <<args, metric_columns, config, loaded_train, loaded_val, val_crops,
                   sampler, model, train_loader, train_loader_for_eval, val_loader,
                   traversals, pending, evaluated_metrics, report>>

\* line 107
SubsampleVal ==
    /\ pc = "subsample_val"
    /\ \/ /\ ~subsample_raises(val_crops, config.size_data)
          /\ val_crops' \in subsample_const_size(val_crops, config.size_data)
          /\ pc' = "define_sampler"
          /\ UNCHANGED error
       \/ /\ subsample_raises(val_crops, config.size_data)
          /\ Abort("ValueError")
          /\ UNCHANGED val_crops
    /\ UNCHANGED <<args, metric_columns, config, loaded_train, loaded_val, train_crops,
                   sampler, model, train_loader, train_loader_for_eval, val_loader,
                   traversals, pending, evaluated_metrics, report>>

\* a missing category is swallowed: the run goes on without a sampler
DefineSamplerLenient ==
    /\ pc = "define_sampler"
    /\ \/ /\ define_sampler_raises(train_crops, config.hierarchy_match)
          /\ pc' = "build_loaders"
          /\ UNCHANGED <<sampler, error>>
       \/ /\ ~define_sampler_raises(train_crops, config.hierarchy_match)
          /\ Len(train_crops) = 0
          /\ Abort("ValueError")
          /\ UNCHANGED sampler
       \/ /\ ~define_sampler_raises(train_crops, config.hierarchy_match)
          /\ Len(train_crops) > 0
          /\ sampler' = define_sampler(train_crops, config.hierarchy_match)
          /\ pc' = "build_loaders"
          /\ UNCHANGED error
    /\ UNCHANGED <<args, metric_columns, config, loaded_train, loaded_val, train_crops,
                   val_crops, model, train_loader, train_loader_for_eval, val_loader,
                   traversals, pending, evaluated_metrics, report>>

\* line 108
DefineSampler ==
    /\ pc = "define_sampler"
    /\ \/ /\ define_sampler_raises(train_crops, config.hierarchy_match)
          /\ Abort("KeyError")
          /\ UNCHANGED sampler
       \/ /\ ~define_sampler_raises(train_crops, config.hierarchy_match)
          /\ Len(train_crops) = 0      \* num_samples must be a positive integer
          /\ Abort("ValueError")
          /\ UNCHANGED sampler
       \/ /\ ~define_sampler_raises(train_crops, config.hierarchy_match)
          /\ Len(train_crops) > 0
          /\ sampler' = define_sampler(train_crops, config.hierarchy_match)
          /\ pc' = "build_loaders"
          /\ UNCHANGED error
    /\ UNCHANGED <<args, metric_columns, config, loaded_train, loaded_val, train_crops,
                   val_crops, model, train_loader, train_loader_for_eval, val_loader,
                   traversals, pending, evaluated_metrics, report>>

\* the three loaders all built like the training loader
loaders_all_sampled(cfg, smp, train, val) ==
    LET l == DataLoader(CellCropsDataset(train, "training_transform"),
                        IF cfg.sample_batch THEN smp ELSE None, ~cfg.sample_batch)
    IN  [train_loader |-> l, train_loader_for_eval |-> l,
         val_loader |-> DataLoader(CellCropsDataset(val, "val_transform"),
                                   IF cfg.sample_batch THEN smp ELSE None,
                                   ~cfg.sample_batch)]

\* lines 113-115 and 124-131: the three datasets and their loaders
loaders(cfg, smp, train, val) ==
    [train_loader |->
        DataLoader(CellCropsDataset(train, "training_transform"),
                   IF cfg.sample_batch THEN smp ELSE None,
                   IF cfg.sample_batch THEN FALSE ELSE TRUE),
     train_loader_for_eval |->
        DataLoader(CellCropsDataset(train, "val_transform"), None, FALSE),
     val_loader |->
        DataLoader(CellCropsDataset(val, "val_transform"), None, FALSE)]

\* lines 109-132
BuildLoaders ==
    /\ pc = "build_loaders"
    /\ model' \in Models
    /\ LET l == loaders(config, sampler, train_crops, val_crops)
       IN  /\ train_loader' = l.train_loader
           /\ train_loader_for_eval' = l.train_loader_for_eval
           /\ val_loader' = l.val_loader
    /\ pc' = "init_run"
    /\ UNCHANGED <<args, metric_columns, config, loaded_train, loaded_val, train_crops,
                   val_crops, sampler, traversals, pending, evaluated_metrics, report,
                   error>>

\* lines 134-147: wandb.init, the output directory, model.eval()
InitRun ==
    /\ pc = "init_run"
    /\ \/ /\ model' = [model EXCEPT !.training = FALSE]
          /\ evaluated_metrics' = <<>>
          /\ pc' = "get_metrics_train"
          /\ UNCHANGED error
       \/ /\ Abort("CommError")
          /\ UNCHANGED <<model, evaluated_metrics>>
    /\ UNCHANGED <<args, metric_columns, config, loaded_train, loaded_val, train_crops,
                   val_crops, sampler, train_loader, train_loader_for_eval, val_loader,
                   traversals, pending, report>>

\* the first element of the list is evaluated over train_loader_for_eval
metric_requests_eval ==
    <<[key |-> "Imagenet_train", loader |-> "train_loader_for_eval"],
      [key |-> "Imagenet_test", loader |-> "val_loader"]>>

\* lines 161-164: the (key, loader) pairs get_metrics is called with, in order
metric_requests ==
    <<[key |-> "Imagenet_train", loader |-> "train_loader"],
      [key |-> "Imagenet_test", loader |-> "val_loader"]>>

\* a failed evaluation of the second element still extends the list and goes on
GetMetricsTestLenient ==
    /\ pc = "get_metrics_test"
    /\ LET rq == metric_requests[2]
       IN  \/ /\ traversals' = Append(traversals, rq.loader)
              /\ evaluated_metrics' = evaluated_metrics \o pending
              /\ pending' = <<>>
              /\ pc' = "write_report"
              /\ UNCHANGED error
           \/ /\ traversals' = traversals \o <<rq.loader, rq.loader>>
              /\ evaluated_metrics' =
                    evaluated_metrics \o Append(pending, get_metrics(args, rq.key, model))
              /\ pending' = <<>>
              /\ pc' = "write_report"
              /\ UNCHANGED error
    /\ UNCHANGED <<args, metric_columns, config, loaded_train, loaded_val, train_crops,
                   val_crops, sampler, model, train_loader, train_loader_for_eval,
                   val_loader, report>>

\* line 162: the discrete run, then the lee run, each a traversal of the
\* loader that may raise; then the merged and stamped row
GetMetricsTrain ==
    /\ pc = "get_metrics_train"
    /\ LET rq == metric_requests[1]
       IN  \/ /\ Abort("EvaluationError")
              /\ traversals' = Append(traversals, rq.loader)
              /\ UNCHANGED pending
           \/ /\ Abort("EvaluationError")
              /\ traversals' = traversals \o <<rq.loader, rq.loader>>
              /\ UNCHANGED pending
           \/ /\ traversals' = traversals \o <<rq.loader, rq.loader>>
              /\ pending' = Append(pending, get_metrics(args, rq.key, model))
              /\ pc' = "get_metrics_test"
              /\ UNCHANGED error
    /\ UNCHANGED <<args, metric_columns, config, loaded_train, loaded_val, train_crops,
                   val_crops, sampler, model, train_loader, train_loader_for_eval,
                   val_loader, evaluated_metrics, report>>

\* line 163, and the += of line 161 once the list literal is complete
GetMetricsTest ==
    /\ pc = "get_metrics_test"
    /\ LET rq == metric_requests[2]
       IN  \/ /\ Abort("EvaluationError")
              /\ traversals' = Append(traversals, rq.loader)
              /\ UNCHANGED <<pending, evaluated_metrics>>
           \/ /\ Abort("EvaluationError")
              /\ traversals' = traversals \o <<rq.loader, rq.loader>>
              /\ UNCHANGED <<pending, evaluated_metrics>>
           \/ /\ traversals' = traversals \o <<rq.loader, rq.loader>>
              /\ evaluated_metrics' =
                    evaluated_metrics \o Append(pending, get_metrics(args, rq.key, model))
              /\ pending' = <<>>
              /\ pc' = "write_report"
              /\ UNCHANGED error
    /\ UNCHANGED <<args, metric_columns, config, loaded_train, loaded_val, train_crops,
                   val_crops, sampler, model, train_loader, train_loader_for_eval,
                   val_loader, report>>

\* lines 212-213
WriteReport ==
    /\ pc = "write_report"
    /\ report' = concat_rows(evaluated_metrics)
    /\ pc' = "done"
    /\ UNCHANGED <<args, metric_columns, config, loaded_train, loaded_val, train_crops,
                   val_crops, sampler, model, train_loader, train_loader_for_eval,
                   val_loader, traversals, pending, evaluated_metrics, error>>

\* what holds of every start: nothing loaded, built, evaluated or written yet
Fresh ==
    /\ sampler = None
    /\ model = None
    /\ train_loader = None
    /\ train_loader_for_eval = None
    /\ val_loader = None
    /\ traversals = <<>>
    /\ pending = <<>>
    /\ evaluated_metrics = <<>>
    /\ report = None
    /\ error = NoError

DefaultArgs == [modelname |-> "resnet18", output_dir |-> "equivariance_metrics_cnns"]

\* the columns of the two metric families in a whole run
DefaultColumns == [lee |-> <<"lee_a", "lee_b">>, discrete |-> <<"disc_x">>]

Init ==
    /\ pc = "load_config"
    /\ args = DefaultArgs
    /\ metric_columns = DefaultColumns
    /\ config = None
    /\ loaded_train = <<>>
    /\ loaded_val = <<>>
    /\ train_crops = <<>>
    /\ val_crops = <<>>
    /\ Fresh

Next ==
    \/ LoadConfig
    \/ LoadCrops
    \/ SubsampleTrain
    \/ SubsampleVal
    \/ DefineSampler
    \/ BuildLoaders
    \/ InitRun
    \/ GetMetricsTrain
    \/ GetMetricsTest
    \/ WriteReport

Spec == Init /\ [][Next]_vars

-----------------------------------------------------------------------------
(* subsample_const_size alone: main stopped at line 105 with the populations *)
(* and size_data drawn freely                                                *)

InitSubsample ==
    /\ pc = "subsample_train"
    /\ args = DefaultArgs
    /\ metric_columns = DefaultColumns
    /\ config \in {Config(b, s, None, TRUE) : b \in BOOLEAN, s \in Sizes(MaxCrops)}
    /\ loaded_train \in Population(MaxCrops)
    /\ loaded_val \in Population(MaxValCrops)
    /\ train_crops = valid_crops(loaded_train)
    /\ val_crops = valid_crops(loaded_val)
    /\ Fresh

NextSubsample == SubsampleTrain \/ SubsampleVal

SpecSubsample == InitSubsample /\ [][NextSubsample]_vars

-----------------------------------------------------------------------------
(* define_sampler alone: main stopped at line 108; the training population   *)
(* is grouped by label, as subsample_const_size leaves it                    *)

RECURSIVE Grouped(_, _)
Grouped(l, n) ==
    IF l > MaxLabel THEN {<<>>}
    ELSE {[i \in 1 .. k |-> l] \o rest : k \in 0 .. n, rest \in Grouped(l + 1, n)}

GroupedPopulation(n) ==
    {[i \in 1 .. Len(ls) |-> [id |-> i, _label |-> ls[i]]] :
        ls \in {g \in Grouped(0, n) : Len(g) <= n}}

InitSampler ==
    /\ pc = "define_sampler"
    /\ args = DefaultArgs
    /\ metric_columns = DefaultColumns
    /\ config \in {Config(FALSE, 0, hm, TRUE) : hm \in HierarchyMatches}
    /\ loaded_train \in GroupedPopulation(MaxItems)
    /\ loaded_val = <<>>
    /\ train_crops = loaded_train
    /\ val_crops = <<>>
    /\ Fresh

NextSampler == DefineSampler

SpecSampler == InitSampler /\ [][NextSampler]_vars

-----------------------------------------------------------------------------
(* get_metrics alone: main stopped at line 161 with the metric columns, the  *)
(* model and its name drawn freely                                           *)

MetricNames == {"lee_a", "lee_b", "disc_x"}

\* the column lists a metric family can produce: distinct names
MetricColumns ==
    {s \in UNION {[1 .. k -> MetricNames] : k \in 0 .. MaxCols} :
        \A i, j \in 1 .. Len(s) : s[i] = s[j] => i = j}

InitMetrics ==
    /\ pc = "get_metrics_train"
    /\ args \in {[DefaultArgs EXCEPT !.modelname = n] : n \in {"resnet18", "resnet50"}}
    /\ metric_columns \in [lee : MetricColumns, discrete : MetricColumns]
    /\ config = Config(FALSE, 0, None, FALSE)
    /\ loaded_train = <<[id |-> 1, _label |-> 0]>>
    /\ loaded_val = <<[id |-> 1, _label |-> 0]>>
    /\ train_crops = loaded_train
    /\ val_crops = loaded_val
    /\ sampler = define_sampler(train_crops, None)
    /\ model \in {[m EXCEPT !.training = FALSE] : m \in Models}
    /\ LET l == loaders(config, sampler, train_crops, val_crops)
       IN  /\ train_loader = l.train_loader
           /\ train_loader_for_eval = l.train_loader_for_eval
           /\ val_loader = l.val_loader
    /\ traversals = <<>>
    /\ pending = <<>>
    /\ evaluated_metrics = <<>>
    /\ report = None
    /\ error = NoError

NextMetrics == GetMetricsTrain \/ GetMetricsTest \/ WriteReport

SpecMetrics == InitMetrics /\ [][NextMetrics]_vars

-----------------------------------------------------------------------------
(* Properties *)

Order ==
    <<"load_config", "load_crops", "subsample_train", "subsample_val",
      "define_sampler", "build_loaders", "init_run", "get_metrics_train",
      "get_metrics_test", "write_report", "done">>

\* the step main is at, or the step that raised
At == IF pc = "aborted" THEN error.at ELSE pc

\* step p has completed without raising
Returned(p) == IndexOf(Order, At) > IndexOf(Order, p)

RaisedAt(p) == pc = "aborted" /\ error.at = p

HasSize == Returned("load_config") /\ config.has_size_data

\* subsample_const_size has been called on the train / val population
TrainCalled == HasSize /\ (Returned("subsample_train") \/ RaisedAt("subsample_train"))
ValCalled == HasSize /\ (Returned("subsample_val") \/ RaisedAt("subsample_val"))
TrainReturned == HasSize /\ Returned("subsample_train")
ValReturned == HasSize /\ Returned("subsample_val")

Count(crops, l) == Cardinality({i \in 1 .. Len(crops) : crops[i]._label = l})

Min(a, b) == IF a < b THEN a ELSE b

LabelsIn(crops) == Range(labels_of(crops))

SubsampleBound(input, output, size) ==
    /\ \A l \in LabelsIn(input) : Count(output, l) = Min(Count(input, l), size)
    /\ LabelsIn(output) \subseteq LabelsIn(input)

\* C1 as claimed: for every integer size, the call returns a population with
\* exactly min(C, size) items of every input label and no other label.
C1_AsClaimed ==
    /\ TrainCalled =>
          /\ Returned("subsample_train")
          /\ SubsampleBound(valid_crops(loaded_train), train_crops, config.size_data)
    /\ ValCalled =>
          /\ Returned("subsample_val")
          /\ SubsampleBound(valid_crops(loaded_val), val_crops, config.size_data)

\* C1: for every size >= 0, subsample_const_size returns a population with
\* exactly min(C, size) items of every input label (C its input count) and no
\* label that is absent from the input.
C1_SubsampleBound ==
    /\ (TrainCalled /\ config.size_data >= 0) =>
          /\ Returned("subsample_train")
          /\ SubsampleBound(valid_crops(loaded_train), train_crops, config.size_data)
    /\ (ValCalled /\ config.size_data >= 0) =>
          /\ Returned("subsample_val")
          /\ SubsampleBound(valid_crops(loaded_val), val_crops, config.size_data)

\* a class larger than size was cut to size while a smaller one was kept whole
C1_Witness ==
    /\ TrainReturned
    /\ \E l1, l2 \in LabelsIn(valid_crops(loaded_train)) :
          /\ Count(valid_crops(loaded_train), l1) > config.size_data
          /\ Count(valid_crops(loaded_train), l2) < config.size_data
          /\ Count(train_crops, l1) = config.size_data
          /\ Count(train_crops, l2) = Count(valid_crops(loaded_train), l2)

\* C3: with size <= 0 subsample_const_size does not fail and returns the empty
\* population.
C3_AsClaimed ==
    /\ (TrainCalled /\ config.size_data <= 0) =>
          Returned("subsample_train") /\ train_crops = <<>>
    /\ (ValCalled /\ config.size_data <= 0) =>
          Returned("subsample_val") /\ val_crops = <<>>

DistinctFrom(input, output) ==
    /\ \A i \in 1 .. Len(output) : output[i] \in Range(input)
    /\ \A i, j \in 1 .. Len(output) : output[i].id = output[j].id => i = j

\* C9: every item of the output of subsample_const_size is an item of the
\* input, and no input position is taken twice.
C9_NoDuplication ==
    /\ TrainReturned => DistinctFrom(valid_crops(loaded_train), train_crops)
    /\ ValReturned => DistinctFrom(valid_crops(loaded_val), val_crops)

\* one class was drawn from (C >= size >= 2) and another kept whole (C < size)
C9_Witness ==
    /\ TrainReturned
    /\ config.size_data >= 2
    /\ \E l1, l2 \in LabelsIn(valid_crops(loaded_train)) :
          /\ Count(valid_crops(loaded_train), l1) >= config.size_data
          /\ Count(valid_crops(loaded_train), l2) < config.size_data
    /\ Len(train_crops) > config.size_data

-----------------------------------------------------------------------------

\* the category of a label under the configured hierarchy_match
CategoryOf(l) ==
    IF config.hierarchy_match = None THEN l ELSE config.hierarchy_match.map[str(l)]

CategoryCount(c) ==
    Cardinality({i \in 1 .. Len(train_crops) : CategoryOf(train_crops[i]._label) = c})

PresentCategories == {CategoryOf(train_crops[i]._label) : i \in 1 .. Len(train_crops)}

SamplerBuilt == Returned("define_sampler")

\* one entry per item; entry i is the double N / count[category(item i)]
WeightsAligned ==
    /\ Len(sampler.weights) = Len(train_crops)
    /\ \A i \in 1 .. Len(train_crops) :
          sampler.weights[i] =
              FDiv(Len(train_crops), CategoryCount(CategoryOf(train_crops[i]._label)))

SameCategorySameWeight ==
    \A i, j \in 1 .. Len(train_crops) :
        CategoryOf(train_crops[i]._label) = CategoryOf(train_crops[j]._label)
            => sampler.weights[i] = sampler.weights[j]

\* the weight the sampler holds for category c
WeightOfCategory(c) ==
    sampler.weights[CHOOSE i \in 1 .. Len(train_crops) :
                        CategoryOf(train_crops[i]._label) = c]

\* float(n) for an integer 1 <= n < 2^17 (exact)
FromInt(n) ==
    LET e == ILog2(n) IN [e |-> e, m |-> <<n * 2 ^ (16 - e), 0, 0>>]

\* c * f for an integer 1 <= c < 2^12 and a double f: the exact product,
\* shifted back to 53 bits and rounded once
FMul(c, f) ==
    LET p3 == f.m[3] * c
        p2 == f.m[2] * c + p3 \div Limb
        p1 == f.m[1] * c + p2 \div Limb
        l3 == p3 % Limb
        l2 == p2 % Limb
        s  == ILog2(p1) - 16
        S  == 2 ^ s
        dropped == l3 % S
    IN  Round(f.e + s,
              <<p1 \div S,
                (p1 % S) * (Limb \div S) + l2 \div S,
                (l2 % S) * (Limb \div S) + l3 \div S>>,
              IF s = 0 THEN 0 ELSE dropped \div (S \div 2),
              s > 0 /\ dropped % (S \div 2) # 0)

\* the next double above f
Succ(f) == Round(f.e, f.m, 1, TRUE)

\* C2 as claimed: one weight per item, weight i = N / count[category(i)], the
\* same weight within a category, and count[c] * weight[c] == N for every
\* category present.
C2_AsClaimed ==
    SamplerBuilt =>
        /\ WeightsAligned
        /\ SameCategorySameWeight
        /\ \A c \in PresentCategories :
              FMul(CategoryCount(c), WeightOfCategory(c)) = FromInt(Len(train_crops))

\* C2: one weight per item, weight i is the double N / count[category(i)],
\* items of one category get the same weight, and count[c] * weight[c] is N
\* or a double adjacent to N.
C2_Weights ==
    SamplerBuilt =>
        /\ WeightsAligned
        /\ SameCategorySameWeight
        /\ \A c \in PresentCategories :
              LET p == FMul(CategoryCount(c), WeightOfCategory(c))
                  n == FromInt(Len(train_crops))
              IN  p = n \/ Succ(p) = n \/ p = Succ(n)

\* a map merges labels into two categories and one product misses N
C2_Witness ==
    /\ SamplerBuilt
    /\ config.hierarchy_match # None
    /\ Cardinality(LabelsIn(train_crops)) > 1
    /\ \E c \in PresentCategories :
          FMul(CategoryCount(c), WeightOfCategory(c)) # FromInt(Len(train_crops))

MissingCategory ==
    /\ config.hierarchy_match # None
    /\ \E i \in 1 .. Len(train_crops) :
          str(train_crops[i]._label) \notin DOMAIN config.hierarchy_match.map

NothingBuilt ==
    /\ sampler = None
    /\ train_loader = None
    /\ train_loader_for_eval = None
    /\ val_loader = None
    /\ traversals = <<>>
    /\ evaluated_metrics = <<>>
    /\ report = None

\* C8: when define_sampler is called with a map that lacks the entry of some
\* item's label, it raises KeyError, builds no sampler, and the run ends there:
\* no loader is built, no metric evaluated, no report written.
C8_MissingCategoryFatal ==
    ((Returned("define_sampler") \/ RaisedAt("define_sampler")) /\ MissingCategory)
        => /\ pc = "aborted"
           /\ error = Raised("KeyError", "define_sampler")
           /\ NothingBuilt

\* the run ended in define_sampler on a label without entry, after subsampling
C8_Witness ==
    /\ RaisedAt("define_sampler")
    /\ MissingCategory
    /\ config.has_size_data
    /\ Len(train_crops) > 1

-----------------------------------------------------------------------------

AllEvaluated ==
    /\ Len(evaluated_metrics) = Len(metric_requests)
    /\ traversals = <<"train_loader", "train_loader", "val_loader", "val_loader">>
    /\ pending = <<>>

\* C4: the report exists only once every get_metrics call has returned; a run
\* in which any step raised has written no report.
C4_NoPartialReport ==
    /\ report # None => (pc = "done" /\ error = NoError /\ AllEvaluated)
    /\ pc = "aborted" => report = None

\* the second get_metrics call raised after the first row was computed
C4_Witness ==
    /\ RaisedAt("get_metrics_test")
    /\ Len(pending) = 1
    /\ report = None

\* C5 as claimed: get_metrics is run over each of the three loaders, and each
\* contributes one row of the report.
C5_AsClaimed ==
    pc = "done" =>
        /\ {"train_loader", "train_loader_for_eval", "val_loader"}
               \subseteq Range(traversals)
        /\ Len(report.data) = 3

\* C5: of the three loaders main builds, get_metrics is run over train_loader
\* and val_loader only; train_loader_for_eval is built and never evaluated, and
\* the report has two rows.
C5_TwoLoaders ==
    pc = "done" =>
        /\ train_loader # None /\ train_loader_for_eval # None /\ val_loader # None
        /\ Range(traversals) = {"train_loader", "val_loader"}
        /\ Len(report.data) = 2

C5_Witness ==
    /\ pc = "done"
    /\ train_loader_for_eval # None
    /\ "train_loader_for_eval" \notin Range(traversals)
    /\ Len(report.data) = 2

Disjoint(s, t) == Range(s) \cap Range(t) = {}

\* row is the row get_metrics returns for key from the two families' rows
MergedRow(row, key) ==
    LET M == Len(metric_columns.lee)
        N == Len(metric_columns.discrete)
    IN  /\ Len(row.index) = 1
        /\ Len(row.data) = 1
        /\ Len(row.columns) = M + N + 3
        /\ Len(row.data[1]) = M + N + 3
        /\ row.columns = metric_columns.lee \o metric_columns.discrete
                             \o <<"dataset", "model", "params">>
        /\ row.data[1][M + N + 1] = key
        /\ row.data[1][M + N + 2] = args.modelname
        /\ row.data[1][M + N + 3] = SumSeq(model.parameters)

Cell(df, r, name) == df.data[r][IndexOf(df.columns, name)]

\* C7: when every run succeeds the report has one row per (key, loader) pair,
\* in the order the pairs were evaluated, and row i carries the key of pair i
\* in its dataset column.
C7_ReportRows ==
    pc = "done" =>
        /\ Len(report.data) = Len(metric_requests)
        /\ Len(report.index) = Len(metric_requests)
        /\ \A i \in 1 .. Len(metric_requests) :
              Cell(report, i, "dataset") = metric_requests[i].key

C7_Witness ==
    /\ pc = "done"
    /\ Len(report.data) = 2
    /\ Cell(report, 1, "dataset") = "Imagenet_train"
    /\ Cell(report, 2, "dataset") = "Imagenet_test"
    /\ report.columns = <<"lee_a", "lee_b", "disc_x", "dataset", "model", "params">>

LoadersBuilt == Returned("build_loaders")

\* C10: the training loader uses the weighted sampler, drawing as many items
\* as the (subsampled) training population holds, with shuffle off when
\* sample_batch is true, and no sampler with shuffle on when it is false; the
\* two evaluation loaders never shuffle and never use the sampler.
C10_SamplingStrategy ==
    LoadersBuilt =>
        /\ train_loader.dataset.crops = train_crops
        /\ config.sample_batch =>
              /\ train_loader.sampler = sampler
              /\ sampler.tag = "WeightedRandomSampler"
              /\ sampler.num_samples = Len(train_crops)
              /\ train_loader.shuffle = FALSE
        /\ ~config.sample_batch =>
              /\ train_loader.sampler = None
              /\ train_loader.shuffle = TRUE
        /\ train_loader_for_eval.sampler = None
        /\ train_loader_for_eval.shuffle = FALSE
        /\ val_loader.sampler = None
        /\ val_loader.shuffle = FALSE

\* a sampled training loader over a population that subsampling has cut
C10_Witness ==
    /\ LoadersBuilt
    /\ config.sample_batch
    /\ config.has_size_data
    /\ Len(train_crops) < Len(valid_crops(loaded_train))
    /\ train_loader.sampler.num_samples = Len(train_crops)

====
